---- MODULE Spec2Model ----
(***************************************************************************)
(* A model of src/components/SimpleEditor.tsx: the useSimpleEditor hook    *)
(* (document store, container write-through, shell handshake) and the      *)
(* toFileTree builder.                                                     *)
(*                                                                         *)
(* A file path is kept as the list of pieces filePath.split('/') returns,  *)
(* so '/a/b' is <<"", "a", "b">> and '/a//b' is <<"", "a", "", "b">>.      *)
(***************************************************************************)
EXTENDS Integers, Sequences, FiniteSets, TLC

\* ------------------------------------------------------------------ bounds
\* toFileTree inputs: at most MaxFiles keys, each of at most MaxPathLen pieces
MaxFiles == 2
MaxPathLen == 2

\* events from outside over one run (edits, scrolls, selections, server-ready
\* events, output chunks, terminal data events), and how many of each kind;
\* creations the container hook may start
MaxEvents == 3
MaxChunks == 2
MaxKeys == 2
MaxEdits == 2
MaxScrolls == 1
MaxServerReady == 2
MaxSelects == 1
MaxBoots == 2

\* ------------------------------------------------------------- toFileTree

\* The pieces a path is made of and the document values used as inputs.
PathPieces == {"", "a", "b"}
TreeContents == {"x", "y"}

RECURSIVE SeqsUpTo(_, _)
SeqsUpTo(S, n) ==
  IF n = 0 THEN {<<>>}
  ELSE LET shorter == SeqsUpTo(S, n - 1)
       IN shorter \cup {Append(s, x) : s \in {t \in shorter : Len(t) = n - 1}, x \in S}

\* Every string key whose split('/') has at most MaxPathLen pieces.
TreePaths == SeqsUpTo(PathPieces, MaxPathLen) \ {<<>>}

\* An EditorDocument as the seed FILES build it.
EditorDocument(path, content) == [filePath |-> path, loading |-> FALSE, value |-> content]

\* filePath.split('/').filter((segment) => segment)
Segments(filePath) == SelectSeq(filePath, LAMBDA segment : segment # "")

EmptyTree == <<>>
FileNode(contents) == [file |-> [contents |-> contents]]
DirectoryNode(tree) == [directory |-> tree]

\* currentTree[name] = node
SetEntry(tree, name, node) ==
  [n \in (DOMAIN tree) \cup {name} |-> IF n = name THEN node ELSE tree[n]]

Returned(tree) == [threw |-> FALSE, tree |-> tree]
\* a TypeError: a property of undefined is read or set
Threw == [threw |-> TRUE, tree |-> EmptyTree]

\* `folder.directory`: undefined when the entry found under the name is a file node
FolderDirectory(folder) ==
  IF "directory" \in DOMAIN folder
  THEN [defined |-> TRUE, tree |-> folder.directory]
  ELSE [defined |-> FALSE, tree |-> EmptyTree]

\* a walk that makes a fresh directory for every intermediate segment
RECURSIVE WalkSegmentsFresh(_, _, _)
WalkSegmentsFresh(currentTree, segments, contents) ==
  LET name == Head(segments) IN
  IF Len(segments) = 1
  THEN Returned(SetEntry(currentTree, name, FileNode(contents)))
  ELSE LET below == WalkSegmentsFresh(EmptyTree, Tail(segments), contents)
       IN Returned(SetEntry(currentTree, name, DirectoryNode(below.tree)))

\* The inner loop over the segments of one path, started at currentTree;
\* the result is currentTree after the path has been put in.
RECURSIVE WalkSegments(_, _, _)
WalkSegments(currentTree, segments, contents) ==
  LET name == Head(segments) IN
  IF Len(segments) = 1
  THEN Returned(SetEntry(currentTree, name, FileNode(contents)))
  ELSE LET folder == IF name \in DOMAIN currentTree
                     THEN currentTree[name]
                     ELSE DirectoryNode(EmptyTree)
           next == FolderDirectory(folder)
       IN IF ~next.defined
          THEN Threw
          ELSE LET below == WalkSegments(next.tree, Tail(segments), contents)
               IN IF below.threw
                  THEN Threw
                  ELSE Returned(SetEntry(currentTree, name, DirectoryNode(below.tree)))

\* The outer loop, `for (const filePath in files)`: files is the list of
\* <<key, document>> pairs of the object in insertion order.
RECURSIVE ForEachFile(_, _)
ForEachFile(root, files) ==
  IF files = <<>>
  THEN Returned(root)
  ELSE LET segments == Segments(files[1][1])
           after == IF segments = <<>>
                    THEN Returned(root)
                    ELSE WalkSegments(root, segments, files[1][2].value)
       IN IF after.threw THEN Threw ELSE ForEachFile(after.tree, Tail(files))

toFileTree(files) == ForEachFile(EmptyTree, files)

\* ------------------------------------------------------------------- FILES

IndexJs == <<"", "src", "index.js">>
IndexHtml == <<"", "src", "index.html">>
LogoSvg == <<"", "src", "assets", "logo.svg">>
PackageJson == <<"", "package.json">>

\* The seed documents, in the order the object literal lists them; a value
\* stands for the text stripIndent returns for that file.
FILES ==
  << <<IndexJs, EditorDocument(IndexJs, "index.js seed")>>,
     <<IndexHtml, EditorDocument(IndexHtml, "index.html seed")>>,
     <<LogoSvg, EditorDocument(LogoSvg, "logo.svg seed")>>,
     <<PackageJson, EditorDocument(PackageJson, "package.json seed")>> >>

\* Object.keys(FILES)
FILE_PATHS == [i \in 1..Len(FILES) |-> FILES[i][1]]

PathSet == {FILE_PATHS[i] : i \in 1..Len(FILE_PATHS)}

\* FILES as the initial value of the documents state
SeedDocuments == [p \in PathSet |-> FILES[CHOOSE i \in 1..Len(FILES) : FILES[i][1] = p][2]]

\* -------------------------------------------------------------------- state

VARIABLES
  documents,            \* useState(FILES): path -> EditorDocument
  selectedFile,         \* useState('/src/index.js')
  previewSrc,           \* useState('')
  terminal,             \* useState(null): the terminal of the latest setTerminal
  webcontainerPromise,  \* what useWebContainer() returned to the latest render
  cached,               \* the hook's memoized promise, 0 while there is none
  boots,                \* how many times the creation routine was started
  promise,              \* promise id -> "unused" | "pending" | "fulfilled" | "rejected"
  waiters,              \* promise id -> continuations suspended on it, in await order
  microtasks,           \* continuations ready to run, in order
  calls,                \* calls made on a container instance, in order
  mounted,              \* the trees handed to mount, in order
  stage,                \* terminal -> how far run(terminal) got
  isInteractive,        \* terminal -> the flag of its run
  jshReady,             \* terminal -> the readiness promise of its run
  input,                \* terminal -> what was written to shellWriter, in order
  display,              \* terminal -> what was written to terminal.write, in order
  output,               \* terminal -> chunks the process output stream delivered, in order
  typed,                \* terminal -> data events the terminal emitted, in order
  edits,                \* the EditorUpdate events, in order, with the file selected at each
  scrolls,              \* number of scroll events
  selects,              \* number of selection events
  served,               \* urls of the server-ready events, in order
  files,                \* toFileTree: the argument under construction
  built,                \* toFileTree: the outcome
  treePc                \* toFileTree: "input" until it is called, then "done"

storeVars == <<documents, selectedFile, previewSrc, terminal, edits, scrolls, selects, served>>
hookVars == <<webcontainerPromise, cached, boots>>
loopVars == <<promise, waiters, microtasks>>
envVars == <<calls, mounted>>
shellVars == <<stage, isInteractive, jshReady, input, display, output, typed>>
treeVars == <<files, built, treePc>>
vars == <<storeVars, hookVars, loopVars, envVars, shellVars, treeVars>>

\* the terminal surfaces that can become ready, one shell session each
Terminals == {"xterm1", "xterm2"}
NoTerminal == "null"
Promises == 1..MaxBoots

\* ------------------------------------------------------- inputs of the run
Contents == {"x", "y"}
Scrolls == {"top 40"}
Urls == {"http://localhost:8080", "http://localhost:8081"}
Keys == {"l", "s"}

OSC654 == "ESC]654;"
BEL == "BEL"
\* An output chunk is the list of its parts: OSC654 is the bytes ESC ] 6 5 4 ;,
\* BEL the byte 07, any other part is text free of both.
Chunks ==
  { <<"hello">>,
    <<OSC654, "interactive", BEL>>,
    <<"hello", OSC654, "interactive", BEL, "world">>,
    <<OSC654, "prompt", BEL>>,
    <<OSC654, "prompt", BEL, OSC654, "interactive", BEL>>,
    <<OSC654, OSC654, "interactive", BEL>> }

BootstrapCommand == "npm install && npm start\\n"

\* ------------------------------------------------------------------ helpers

RECURSIVE TotalLen(_, _)
\* the summed length of the sequences f holds for the keys in S
TotalLen(f, S) ==
  IF S = {} THEN 0
  ELSE LET k == CHOOSE x \in S : TRUE IN Len(f[k]) + TotalLen(f, S \ {k})

\* { ...doc, [field]: v }
Spread(doc, field, v) ==
  [f \in (DOMAIN doc) \cup {field} |-> IF f = field THEN v ELSE doc[f]]

\* A suspended async function: what runs when the awaited promise settles.
\* wc is the awaited container instance, filled in when the promise fulfils.
Continuation(k, t, path, content) ==
  [k |-> k, t |-> t, path |-> path, content |-> content, wc |-> 0]

\* A call on a container instance; state is that of the promise it returned
\* (registering a listener returns none and is done at once).
Call(on, op, path, content, t) ==
  [on |-> on, op |-> op, path |-> path, content |-> content, t |-> t,
   state |-> IF op = "on" THEN "fulfilled" ELSE "pending"]

\* the mount and writeFile calls the environment has settled
Settled ==
  Len(SelectSeq(calls, LAMBDA c : c.op \in {"mount", "writeFile"} /\ c.state # "pending"))

\* events from outside so far
Events ==
  Len(edits) + scrolls + selects + Len(served)
    + TotalLen(output, Terminals) + TotalLen(typed, Terminals)
    + Settled + Cardinality({t \in Terminals : stage[t] = "exited"})

\* The event loop runs a task (an event handler, a settled environment
\* promise) only when no continuation is ready to run.
Idle == microtasks = <<>>

\* `await p` when the promises are in state pr: the continuation is parked
\* while p is pending, queued when p is fulfilled and lost (the async
\* function rejects) when p is rejected.
Await(pr, p, cont) ==
  /\ waiters' = IF pr[p] = "pending"
                THEN [waiters EXCEPT ![p] = Append(@, cont)]
                ELSE waiters
  /\ microtasks' = IF pr[p] = "fulfilled"
                   THEN Append(microtasks, [cont EXCEPT !.wc = p])
                   ELSE microtasks

\* ---------------------------------------------------------- useWebContainer
\* a hook that starts the creation routine on every call
useWebContainerFresh(cache, started) ==
  [promise |-> started + 1, cached |-> started + 1, boots |-> started + 1]

\* hooks/useWebContainer.js: the creation routine is started by the first
\* call and its promise is handed to every later call.
useWebContainer(cache, started) ==
  IF cache # 0
  THEN [promise |-> cache, cached |-> cache, boots |-> started]
  ELSE [promise |-> started + 1, cached |-> started + 1, boots |-> started + 1]

\* A render of useSimpleEditor: the hook body runs again.
Render ==
  LET r == useWebContainer(cached, boots) IN
  /\ r.boots <= MaxBoots
  /\ webcontainerPromise' = r.promise
  /\ cached' = r.cached
  /\ boots' = r.boots
  /\ promise' = IF r.boots > boots
                THEN [promise EXCEPT ![r.promise] = "pending"]
                ELSE promise

\* --------------------------------------------------------------------- Init
\* The state after the first render and its effects: the mount effect has
\* started its async function, which is suspended on the handle; there is
\* no terminal yet.
Init ==
  LET r == useWebContainer(0, 0) IN
  /\ documents = SeedDocuments
  /\ selectedFile = IndexJs
  /\ previewSrc = ""
  /\ terminal = NoTerminal
  /\ webcontainerPromise = r.promise
  /\ cached = r.cached
  /\ boots = r.boots
  /\ promise = [p \in Promises |-> IF p = r.promise THEN "pending" ELSE "unused"]
  /\ waiters = [p \in Promises |->
                  IF p = r.promise
                  THEN <<Continuation("effect", NoTerminal, <<>>, "")>>
                  ELSE <<>>]
  /\ microtasks = <<>>
  /\ calls = <<>>
  /\ mounted = <<>>
  /\ stage = [t \in Terminals |-> "none"]
  /\ isInteractive = [t \in Terminals |-> FALSE]
  /\ jshReady = [t \in Terminals |-> "none"]
  /\ input = [t \in Terminals |-> <<>>]
  /\ display = [t \in Terminals |-> <<>>]
  /\ output = [t \in Terminals |-> <<>>]
  /\ typed = [t \in Terminals |-> <<>>]
  /\ edits = <<>>
  /\ scrolls = 0
  /\ selects = 0
  /\ served = <<>>
  /\ files = <<>>
  /\ built = Returned(EmptyTree)
  /\ treePc = "input"

\* ----------------------------------------------------------- document store

\* an onChange that updates the store only when the handle is there
onChangeDocumentsWithHandle(prevDocuments, selected, content) ==
  IF promise[webcontainerPromise] = "fulfilled"
  THEN Spread(prevDocuments, selected, Spread(prevDocuments[selected], "value", content))
  ELSE prevDocuments

\* the updater onChange hands to setDocuments
onChangeDocuments(prevDocuments, selected, content) ==
  Spread(prevDocuments, selected, Spread(prevDocuments[selected], "value", content))

\* an updater that forgets to spread the previous document
onScrollDocumentsBare(prevDocuments, selected, scroll) ==
  Spread(prevDocuments, selected, [scroll |-> scroll])

\* the updater onScroll hands to setDocuments
onScrollDocuments(prevDocuments, selected, scroll) ==
  Spread(prevDocuments, selected, Spread(prevDocuments[selected], "scroll", scroll))

\* a write-through that takes the content from the document of the render
\* onChange belongs to
onChangeWriteThroughStale(selected, content) ==
  Continuation("write", NoTerminal, selected, documents[selected].value)

\* what onChange does once the handle is there: writeFile(selectedFile, content),
\* both as they were when onChange was called
onChangeWriteThrough(selected, content) == Continuation("write", NoTerminal, selected, content)

\* const document = documents[selectedFile]
document == documents[selectedFile]

onChange(content) ==
  /\ Idle
  /\ Events < MaxEvents
  /\ Len(edits) < MaxEdits
  /\ documents' = onChangeDocuments(documents, selectedFile, content)
  /\ edits' = Append(edits, [path |-> selectedFile, content |-> content])
  /\ Await(promise, webcontainerPromise, onChangeWriteThrough(selectedFile, content))
  /\ Render
  /\ UNCHANGED <<selectedFile, previewSrc, terminal, scrolls, selects, served>>
  /\ UNCHANGED <<envVars, shellVars, treeVars>>

onScroll(scroll) ==
  /\ Idle
  /\ Events < MaxEvents
  /\ scrolls < MaxScrolls
  /\ documents' = onScrollDocuments(documents, selectedFile, scroll)
  /\ scrolls' = scrolls + 1
  /\ Render
  /\ UNCHANGED <<selectedFile, previewSrc, terminal, edits, selects, served>>
  /\ UNCHANGED <<waiters, microtasks, envVars, shellVars, treeVars>>

setSelectedFile(path) ==
  /\ Idle
  /\ Events < MaxEvents
  /\ selects < MaxSelects
  /\ path # selectedFile
  /\ selectedFile' = path
  /\ selects' = selects + 1
  /\ Render
  /\ UNCHANGED <<documents, previewSrc, terminal, edits, scrolls, served>>
  /\ UNCHANGED <<waiters, microtasks, envVars, shellVars, treeVars>>

\* ------------------------------------------------------------ the container

\* The creation routine settles: every function suspended on the handle is
\* resumed with the instance, in the order they awaited it.
BootResolve(p) ==
  /\ Idle
  /\ promise[p] = "pending"
  /\ promise' = [promise EXCEPT ![p] = "fulfilled"]
  /\ microtasks' = [i \in 1..Len(waiters[p]) |-> [waiters[p][i] EXCEPT !.wc = p]]
  /\ waiters' = [waiters EXCEPT ![p] = <<>>]
  /\ UNCHANGED <<storeVars, hookVars, envVars, shellVars, treeVars>>

\* The creation routine fails: every function suspended on the handle rejects.
BootReject(p) ==
  /\ Idle
  /\ promise[p] = "pending"
  /\ promise' = [promise EXCEPT ![p] = "rejected"]
  /\ waiters' = [waiters EXCEPT ![p] = <<>>]
  /\ UNCHANGED <<microtasks, storeVars, hookVars, envVars, shellVars, treeVars>>

\* a mount effect that awaits once more before it mounts: the functions that
\* are ready to resume run first
MountEffectYields ==
  /\ microtasks # <<>>
  /\ Head(microtasks).k = "effect"
  /\ IF Len(microtasks) > 1
     THEN /\ microtasks' = Append(Tail(microtasks), Head(microtasks))
          /\ UNCHANGED <<calls, mounted>>
     ELSE /\ calls' = calls \o <<Call(Head(microtasks).wc, "on", <<>>, "", NoTerminal),
                                  Call(Head(microtasks).wc, "mount", <<>>, "", NoTerminal)>>
          /\ mounted' = Append(mounted, toFileTree(FILES).tree)
          /\ microtasks' = Tail(microtasks)
  /\ UNCHANGED <<storeVars, hookVars, promise, waiters, shellVars, treeVars>>

\* The mount effect after `await webcontainerPromise`: register the
\* server-ready listener, then mount the seed tree.
MountEffect ==
  /\ microtasks # <<>>
  /\ Head(microtasks).k = "effect"
  /\ LET wc == Head(microtasks).wc
         tree == toFileTree(FILES)
     IN /\ calls' = calls \o <<Call(wc, "on", <<>>, "", NoTerminal)>>
                          \o (IF tree.threw THEN <<>> ELSE <<Call(wc, "mount", <<>>, "", NoTerminal)>>)
        /\ mounted' = IF tree.threw THEN mounted ELSE Append(mounted, tree.tree)
  /\ microtasks' = Tail(microtasks)
  /\ UNCHANGED <<storeVars, hookVars, promise, waiters, shellVars, treeVars>>

\* a write-through that reads selectedFile when it resumes
writeFileCallSelected(c) ==
  Call(c.wc, "writeFile", selectedFile, c.content, NoTerminal)

\* webcontainer.fs.writeFile(selectedFile, content), both as onChange was given them
writeFileCall(c) == Call(c.wc, "writeFile", c.path, c.content, NoTerminal)

\* onChange after `await webcontainerPromise`
WriteFile ==
  /\ microtasks # <<>>
  /\ Head(microtasks).k = "write"
  /\ calls' = Append(calls, writeFileCall(Head(microtasks)))
  /\ microtasks' = Tail(microtasks)
  /\ UNCHANGED <<storeVars, hookVars, promise, waiters, mounted, shellVars, treeVars>>

\* The environment settles a mount or a writeFile; the function that awaited
\* it ends, fulfilled or rejected, and nothing of the hook runs after it.
FsResolve(i) ==
  /\ Idle
  /\ Events < MaxEvents
  /\ calls[i].op \in {"mount", "writeFile"}
  /\ calls[i].state = "pending"
  /\ calls' = [calls EXCEPT ![i].state = "fulfilled"]
  /\ UNCHANGED <<storeVars, hookVars, loopVars, mounted, shellVars, treeVars>>

FsReject(i) ==
  /\ Idle
  /\ Events < MaxEvents
  /\ calls[i].op \in {"mount", "writeFile"}
  /\ calls[i].state = "pending"
  /\ calls' = [calls EXCEPT ![i].state = "rejected"]
  /\ UNCHANGED <<storeVars, hookVars, loopVars, mounted, shellVars, treeVars>>

\* a listener that keeps the first url it was given
serverReadyListenerFirst(src, url) == IF src = "" THEN url ELSE src

\* the callback registered for 'server-ready'
serverReadyListener(src, url) == url

\* The environment exposes an endpoint: instance wc emits server-ready to the
\* listeners registered on it.
ServerReady(wc, url) ==
  /\ Idle
  /\ Events < MaxEvents
  /\ Len(served) < MaxServerReady
  /\ promise[wc] = "fulfilled"
  /\ served' = Append(served, url)
  /\ previewSrc' = IF \E i \in 1..Len(calls) : calls[i].op = "on" /\ calls[i].on = wc
                   THEN serverReadyListener(previewSrc, url)
                   ELSE previewSrc
  /\ Render
  /\ UNCHANGED <<documents, selectedFile, terminal, edits, scrolls, selects>>
  /\ UNCHANGED <<waiters, microtasks, envVars, shellVars, treeVars>>

\* ---------------------------------------------------------- shell handshake

\* The terminal effect: a terminal became ready, run(terminal) starts and
\* suspends on the handle the new render holds.  A terminal surface reports
\* itself ready once.
setTerminal(t) ==
  /\ Idle
  /\ stage[t] = "none"
  /\ terminal' = t
  /\ stage' = [stage EXCEPT ![t] = "acquiring"]
  /\ Render
  /\ Await(promise', webcontainerPromise', Continuation("spawn", t, <<>>, ""))
  /\ UNCHANGED <<documents, selectedFile, previewSrc, edits, scrolls, selects, served>>
  /\ UNCHANGED <<envVars, isInteractive, jshReady, input, display, output, typed, treeVars>>

\* run after `await webcontainerPromise`: webcontainer.spawn('jsh', ['--osc'], ...)
SpawnShell ==
  /\ microtasks # <<>>
  /\ Head(microtasks).k = "spawn"
  /\ LET c == Head(microtasks)
     IN /\ calls' = Append(calls, Call(c.wc, "spawn", <<>>, "", c.t))
        /\ stage' = [stage EXCEPT ![c.t] = "spawning"]
  /\ microtasks' = Tail(microtasks)
  /\ UNCHANGED <<storeVars, hookVars, promise, waiters, mounted, treeVars>>
  /\ UNCHANGED <<isInteractive, jshReady, input, display, output, typed>>

\* calls, with the spawn made for terminal t settled
SpawnSettled(t, how) ==
  [i \in 1..Len(calls) |->
     IF calls[i].op = "spawn" /\ calls[i].t = t
     THEN [calls[i] EXCEPT !.state = how]
     ELSE calls[i]]

\* the environment started the process
SpawnResolve(t) ==
  /\ Idle
  /\ stage[t] = "spawning"
  /\ stage' = [stage EXCEPT ![t] = "spawned"]
  /\ calls' = SpawnSettled(t, "fulfilled")
  /\ microtasks' = <<Continuation("attach", t, <<>>, "")>>
  /\ UNCHANGED <<storeVars, hookVars, promise, waiters, mounted, treeVars>>
  /\ UNCHANGED <<isInteractive, jshReady, input, display, output, typed>>

\* a run that carries on after a failed spawn
spawnRejectedResumes(t, queue) == Append(queue, Continuation("attach", t, <<>>, ""))

\* `await webcontainer.spawn` rejects: run rejects and nothing is resumed
spawnRejected(t, queue) == queue

\* the environment could not start the process
SpawnReject(t) ==
  /\ Idle
  /\ stage[t] = "spawning"
  /\ stage' = [stage EXCEPT ![t] = "failed"]
  /\ calls' = SpawnSettled(t, "rejected")
  /\ microtasks' = spawnRejected(t, microtasks)
  /\ UNCHANGED <<storeVars, hookVars, promise, waiters, mounted, treeVars>>
  /\ UNCHANGED <<isInteractive, jshReady, input, display, output, typed>>

\* run after `await webcontainer.spawn`: the flag, the readiness promise, the
\* output sink, the writer and the onData listener are set up, and run
\* suspends on jshReady.
Attach ==
  /\ microtasks # <<>>
  /\ Head(microtasks).k = "attach"
  /\ LET t == Head(microtasks).t
     IN /\ stage' = [stage EXCEPT ![t] = "attached"]
        /\ isInteractive' = [isInteractive EXCEPT ![t] = FALSE]
        /\ jshReady' = [jshReady EXCEPT ![t] = "pending"]
  /\ microtasks' = Tail(microtasks)
  /\ UNCHANGED <<storeVars, hookVars, promise, waiters, envVars, treeVars>>
  /\ UNCHANGED <<input, display, output, typed>>

\* data.match(/\x1b\]654;([^\x07]+)\x07/): the match starts at the first
\* OSC654 that is followed by at least one part other than BEL and then a
\* BEL; the group is what lies between.
MatchesAt(data, i) ==
  /\ data[i] = OSC654
  /\ \E j \in (i + 2)..Len(data) :
       /\ data[j] = BEL
       /\ \A k \in (i + 1)..(j - 1) : data[k] # BEL

match(data) ==
  IF \E i \in 1..Len(data) : MatchesAt(data, i)
  THEN LET i == CHOOSE i \in 1..Len(data) :
                  MatchesAt(data, i) /\ \A h \in 1..(i - 1) : ~MatchesAt(data, h)
           j == CHOOSE j \in (i + 2)..Len(data) :
                  data[j] = BEL /\ \A k \in (i + 1)..(j - 1) : data[k] # BEL
       IN [found |-> TRUE, osc |-> SubSeq(data, i + 1, j - 1)]
  ELSE [found |-> FALSE, osc |-> <<>>]

\* a test that takes any status for the readiness marker
oscIsAnyStatus(data) == match(data).found

\* osc === 'interactive'
oscIsInteractive(data) ==
  LET m == match(data) IN m.found /\ m.osc = <<"interactive">>

\* a handler that sets the flag from every chunk
writeIsInteractiveEveryChunk(interactive, data) == oscIsInteractive(data)

\* the value of isInteractive after write(data)
writeIsInteractive(interactive, data) ==
  IF ~interactive THEN oscIsInteractive(data) ELSE interactive

\* a write handler that sets the flag and never calls resolveReady()
resolveReadyMissing(t, queue) == queue

\* resolveReady(): run, suspended on jshReady, is resumed; resolving a
\* promise that is already fulfilled does nothing
resolveReady(t, queue) ==
  IF jshReady[t] = "pending"
  THEN Append(queue, Continuation("bootstrap", t, <<>>, ""))
  ELSE queue

\* a sink that swallows the chunk carrying the marker
terminalWriteFiltered(shown, data) ==
  IF oscIsInteractive(data) THEN shown ELSE Append(shown, data)

\* terminal.write(data)
terminalWrite(shown, data) == Append(shown, data)

\* one flag for all sessions
flagsAfterWriteShared(t, data) ==
  [u \in Terminals |-> writeIsInteractive(isInteractive[u], data)]

\* the flags after write(data) in the run of terminal t: isInteractive is a
\* local of that run
flagsAfterWrite(t, data) ==
  [isInteractive EXCEPT ![t] = writeIsInteractive(@, data)]

\* WritableStream.write(data): the process output stream delivers a chunk
write(t, data) ==
  /\ Idle
  /\ stage[t] = "attached"
  /\ Events < MaxEvents
  /\ TotalLen(output, Terminals) < MaxChunks
  /\ output' = [output EXCEPT ![t] = Append(@, data)]
  /\ isInteractive' = flagsAfterWrite(t, data)
  /\ IF ~isInteractive[t] /\ isInteractive'[t]
     THEN /\ microtasks' = resolveReady(t, microtasks)
          /\ jshReady' = [jshReady EXCEPT ![t] = "fulfilled"]
     ELSE UNCHANGED <<microtasks, jshReady>>
  /\ display' = [display EXCEPT ![t] = terminalWrite(@, data)]
  /\ UNCHANGED <<storeVars, hookVars, promise, waiters, envVars, treeVars>>
  /\ UNCHANGED <<stage, input, typed>>

\* the listener without its `if (isInteractive)` test
onDataListenerUngated(interactive, written, data) == Append(written, data)

\* the listener given to terminal.onData: what the writer has been given after it
onDataListener(interactive, written, data) ==
  IF interactive THEN Append(written, data) ELSE written

\* the onData listener of the run of terminal t is registered; nothing in
\* run removes it
Listening(t) == stage[t] \in {"attached", "exited"}

\* The shell process of a session exits: its output stream ends.
ProcessExit(t) ==
  /\ Idle
  /\ Events < MaxEvents
  /\ stage[t] = "attached"
  /\ stage' = [stage EXCEPT ![t] = "exited"]
  /\ UNCHANGED <<storeVars, hookVars, loopVars, envVars, treeVars>>
  /\ UNCHANGED <<isInteractive, jshReady, input, display, output, typed>>

\* The terminal of a session emits a data event; the listener hears it once
\* it is registered.
onData(t, data) ==
  /\ Idle
  /\ stage[t] # "none"
  /\ Events < MaxEvents
  /\ TotalLen(typed, Terminals) < MaxKeys
  /\ typed' = [typed EXCEPT ![t] = Append(@, [data |-> data, open |-> isInteractive[t]])]
  /\ input' = [input EXCEPT ![t] =
                 IF Listening(t)
                 THEN onDataListener(isInteractive[t], @, data)
                 ELSE @]
  /\ UNCHANGED <<storeVars, hookVars, loopVars, envVars, treeVars>>
  /\ UNCHANGED <<stage, isInteractive, jshReady, display, output>>

\* run after `await jshReady`
Bootstrap ==
  /\ microtasks # <<>>
  /\ Head(microtasks).k = "bootstrap"
  /\ LET t == Head(microtasks).t
     IN input' = [input EXCEPT ![t] = Append(@, BootstrapCommand)]
  /\ microtasks' = Tail(microtasks)
  /\ UNCHANGED <<storeVars, hookVars, promise, waiters, envVars, treeVars>>
  /\ UNCHANGED <<stage, isInteractive, jshReady, display, output, typed>>

\* ------------------------------------------------------------ specification

Next ==
  \/ \E content \in Contents : onChange(content)
  \/ \E scroll \in Scrolls : onScroll(scroll)
  \/ \E path \in PathSet : setSelectedFile(path)
  \/ \E p \in Promises : BootResolve(p)
  \/ \E p \in Promises : BootReject(p)
  \/ MountEffect
  \/ WriteFile
  \/ \E i \in DOMAIN calls : FsResolve(i)
  \/ \E i \in DOMAIN calls : FsReject(i)
  \/ \E wc \in Promises, url \in Urls : ServerReady(wc, url)
  \/ \E t \in Terminals : setTerminal(t)
  \/ SpawnShell
  \/ \E t \in Terminals : SpawnResolve(t)
  \/ \E t \in Terminals : SpawnReject(t)
  \/ Attach
  \/ \E t \in Terminals, data \in Chunks : write(t, data)
  \/ \E t \in Terminals : ProcessExit(t)
  \/ \E t \in Terminals, data \in Keys : onData(t, data)
  \/ Bootstrap

Spec == Init /\ [][Next]_vars

\* toFileTree on its own: an object is filled key by key, then handed over.
AddFile(path, content) ==
  /\ treePc = "input"
  /\ Len(files) < MaxFiles
  /\ \A i \in 1..Len(files) : files[i][1] # path
  /\ files' = Append(files, <<path, EditorDocument(path, content)>>)
  /\ UNCHANGED <<built, treePc>>
  /\ UNCHANGED <<storeVars, hookVars, loopVars, envVars, shellVars>>

CallToFileTree ==
  /\ treePc = "input"
  /\ built' = toFileTree(files)
  /\ treePc' = "done"
  /\ UNCHANGED files
  /\ UNCHANGED <<storeVars, hookVars, loopVars, envVars, shellVars>>

NextTree ==
  \/ \E path \in TreePaths, content \in TreeContents : AddFile(path, content)
  \/ CallToFileTree

SpecTree == Init /\ [][NextTree]_vars

\* ------------------------------------------------------------------- claims

\* what shellWriter was given other than the bootstrap command
Keystrokes(t) == SelectSeq(input[t], LAMBDA d : d # BootstrapCommand)

\* the data events of terminal t that arrived with the gate open
Accepted(t) ==
  LET open == SelectSeq(typed[t], LAMBDA k : k.open)
  IN [i \in 1..Len(open) |-> open[i].data]

BootstrapWrites(t) == Len(SelectSeq(input[t], LAMBDA d : d = BootstrapCommand))

\* the chunk holds ESC ] 654 ; interactive BEL somewhere
ContainsMarker(data) ==
  \E i \in 1..(Len(data) - 2) :
    data[i] = OSC654 /\ data[i + 1] = "interactive" /\ data[i + 2] = BEL

MarkerDelivered(t) == \E i \in 1..Len(output[t]) : ContainsMarker(output[t][i])

\* C1 (gated input): in every session, the keystrokes the writer has been
\* given are exactly the data events that arrived after the marker was
\* observed, in their order of arrival; an event that arrived before is in
\* the sink neither then nor later.
C1_GatedInput == \A t \in Terminals : Keystrokes(t) = Accepted(t)

\* a session that got one data event before the marker and a different one
\* after it, and has forwarded the second
C1_Witness ==
  \E t \in Terminals :
    /\ Len(typed[t]) = 2
    /\ ~typed[t][1].open /\ typed[t][2].open
    /\ typed[t][1].data # typed[t][2].data
    /\ input[t] = <<BootstrapCommand, typed[t][2].data>>

\* C2 (bootstrap ordering): in every session the first thing written to
\* the process input is the bootstrap command, so nothing is written
\* between the opening of the gate and the bootstrap command.
C2_BootstrapFirst ==
  \A t \in Terminals :
    /\ input[t] # <<>> => Head(input[t]) = BootstrapCommand
    /\ (isInteractive[t] /\ BootstrapWrites(t) = 0) => input[t] = <<>>

\* the moment between the two: the gate of a session is open, run is about
\* to be resumed, data events arrived earlier and nothing has been written
C2_Witness ==
  \E t \in Terminals :
    /\ isInteractive[t]
    /\ typed[t] # <<>>
    /\ microtasks # <<>>
    /\ Head(microtasks).k = "bootstrap" /\ Head(microtasks).t = t
    /\ input[t] = <<>>

\* C3 (bootstrap exactly once): the bootstrap command is written at most
\* once per session; once the marker has been observed and the resumed run
\* has had its turn it has been written exactly once, whatever chunks
\* follow; as long as no chunk carried the marker nothing at all is written.
C3_BootstrapOnce ==
  \A t \in Terminals :
    /\ BootstrapWrites(t) <= 1
    /\ (isInteractive[t] /\ Idle) => BootstrapWrites(t) = 1
    /\ ~MarkerDelivered(t) => input[t] = <<>>

\* a session that saw the marker twice and wrote the command once
C3_Witness ==
  \E t \in Terminals :
    /\ Len(output[t]) = 2
    /\ oscIsInteractive(output[t][1]) /\ oscIsInteractive(output[t][2])
    /\ Idle
    /\ BootstrapWrites(t) = 1

\* C4 (marker detection): every chunk that holds ESC ] 654 ; interactive BEL
\* opens the gate of a session that is awaiting readiness, whatever else the
\* chunk holds; so a session that was delivered such a chunk is interactive.
C4_MarkerDetection == \A t \in Terminals : MarkerDelivered(t) => isInteractive[t]

\* C5 (output pass-through): what has been written to the display of a
\* session is the sequence of chunks its process has delivered, each once,
\* unchanged, in order.
C5_OutputPassThrough == \A t \in Terminals : display[t] = output[t]

\* a session that showed a chunk without the marker and then the chunk that
\* carried it, and is interactive
C5_Witness ==
  \E t \in Terminals :
    /\ Len(display[t]) = 2
    /\ ~ContainsMarker(display[t][1])
    /\ ContainsMarker(display[t][2])
    /\ isInteractive[t]

\* the writeFile calls made so far, as the edits they carry
WriteCalls ==
  LET ws == SelectSeq(calls, LAMBDA c : c.op = "writeFile")
  IN [i \in 1..Len(ws) |-> [path |-> ws[i].path, content |-> ws[i].content]]

Count(seq, x) == Len(SelectSeq(seq, LAMBDA e : e = x))

Updates == [path : PathSet, content : Contents]

\* the content of the latest edit of the file, its seed value if there is none
LatestContent(path) ==
  LET mine == SelectSeq(edits, LAMBDA e : e.path = path)
  IN IF mine = <<>> THEN SeedDocuments[path].value ELSE mine[Len(mine)].content

\* C8 (round-trip write): the store holds for every file the content of its
\* latest edit; writeFile is never called for an update more often than the
\* update was made, and once the handle is fulfilled and the resumed
\* functions have run it has been called exactly once per update, with the
\* path selected at the edit and the content of the edit.
C8_RoundTripWrite ==
  /\ \A path \in PathSet : documents[path].value = LatestContent(path)
  /\ \A u \in Updates : Count(WriteCalls, u) <= Count(edits, u)
  /\ (promise[webcontainerPromise] = "fulfilled" /\ Idle)
       => \A u \in Updates : Count(WriteCalls, u) = Count(edits, u)

\* two edits of two files, both written through
C8_Witness ==
  /\ Len(edits) = 2
  /\ edits[1].path # edits[2].path
  /\ promise[webcontainerPromise] = "fulfilled"
  /\ Idle
  /\ Len(WriteCalls) = 2
  /\ documents[edits[1].path].value = edits[1].content

\* C9 (single handle): the creation routine is started at most once, every
\* render holds the one promise it made, every suspended function is
\* suspended on that promise, and every call (listener, mount, writeFile,
\* spawn) is made on the instance it fulfils with.
C9_SingleHandle ==
  /\ boots <= 1
  /\ \A p \in Promises : p # webcontainerPromise => (promise[p] = "unused" /\ waiters[p] = <<>>)
  /\ \A i \in 1..Len(microtasks) : microtasks[i].wc \in {0, webcontainerPromise}
  /\ \A i \in 1..Len(calls) : calls[i].on = webcontainerPromise

\* the mount effect, an edit and a shell have all reached the container
C9_Witness ==
  /\ \E i \in 1..Len(calls) : calls[i].op = "mount"
  /\ \E i \in 1..Len(calls) : calls[i].op = "writeFile"
  /\ \E i \in 1..Len(calls) : calls[i].op = "spawn"
  /\ \A i, j \in 1..Len(calls) : calls[i].on = calls[j].on

CallsOf(op) == SelectSeq(calls, LAMBDA c : c.op = op)

HandleThere == promise[webcontainerPromise] = "fulfilled" /\ Idle

\* C11 (mount first): mount is issued at most once, exactly once when the
\* handle is fulfilled and the resumed functions have run, and every
\* writeFile call comes after it in the order of calls.
C11_MountFirst ==
  /\ Len(CallsOf("mount")) <= 1
  /\ HandleThere => Len(CallsOf("mount")) = 1
  /\ \A i \in 1..Len(calls) :
       calls[i].op = "writeFile" => \E j \in 1..(i - 1) : calls[j].op = "mount"

\* two edits were made, mount was issued and both writes follow it
C11_Witness ==
  /\ Len(edits) = 2
  /\ Len(CallsOf("mount")) = 1
  /\ Len(CallsOf("writeFile")) = 2

\* C12 (writes are serialized after mount): no writeFile is issued while a
\* mount is still in flight.
C12_WritesAfterMount ==
  [][(Len(calls') > Len(calls) /\ calls'[Len(calls')].op = "writeFile")
       => \A i \in 1..Len(calls) : calls[i].op = "mount" => calls[i].state # "pending"]_vars

\* C13 (terminated is inert): once the shell process of a session has
\* exited, nothing more is written to its input.
C13_TerminatedInert ==
  [][\A t \in Terminals : stage[t] = "exited" => input'[t] = input[t]]_vars

\* C14 (monotone gate): the flag of a session is false until its run has
\* set up the output sink, once true it stays true, and the readiness
\* promise is fulfilled only from pending and stays fulfilled.
C14_MonotoneGate ==
  /\ [](\A t \in Terminals : ~Listening(t) => (~isInteractive[t] /\ jshReady[t] = "none"))
  /\ [][\A t \in Terminals :
          /\ isInteractive[t] => isInteractive'[t]
          /\ jshReady[t] = "fulfilled" => jshReady'[t] = "fulfilled"
          /\ (jshReady[t] # "fulfilled" /\ jshReady'[t] = "fulfilled")
               => (jshReady[t] = "pending" /\ ~isInteractive[t] /\ isInteractive'[t])]_vars

\* a session whose gate opened and which then got a chunk without the marker
C14_Witness ==
  \E t \in Terminals :
    /\ Len(output[t]) = 2
    /\ oscIsInteractive(output[t][1])
    /\ ~oscIsInteractive(output[t][2])
    /\ isInteractive[t]

\* a step in which the handle, a mount or a writeFile fails
FsFailure ==
  \/ \E p \in Promises : promise[p] # "rejected" /\ promise'[p] = "rejected"
  \/ /\ Len(calls') = Len(calls)
     /\ \E i \in 1..Len(calls) :
          /\ calls[i].op \in {"mount", "writeFile"}
          /\ calls[i].state # "rejected" /\ calls'[i].state = "rejected"

\* C15 (the store update is independent of the write-through): the store
\* holds the latest edit of every file in every state, also while the handle
\* is pending, a write is in flight or one of them has failed; a failure
\* changes neither the store nor the state of any shell session; an edit is
\* accepted whenever the hook is at rest, whatever has failed.
C15_StoreIndependent ==
  /\ [](\A path \in PathSet : documents[path].value = LatestContent(path))
  /\ []((Idle /\ Events < MaxEvents /\ Len(edits) < MaxEdits)
          => \A content \in Contents : ENABLED onChange(content))
  /\ [][FsFailure => UNCHANGED <<documents, selectedFile, shellVars>>]_vars

\* the first write-through was rejected and an edit made after that is in
\* the store, its own write-through still to come
C15_Witness ==
  /\ Len(edits) = 2
  /\ Len(CallsOf("writeFile")) = 1
  /\ CallsOf("writeFile")[1].state = "rejected"
  /\ documents[edits[2].path].value = edits[2].content
  /\ edits[2] # edits[1]

SpawnsFor(t) == SelectSeq(calls, LAMBDA c : c.op = "spawn" /\ c.t = t)

\* C16 (spawn failure): a session whose spawn was rejected stays as it was
\* before the spawn: no listener, no sink, nothing shown, nothing written,
\* and no second spawn for its terminal.
C16_SpawnFailure ==
  \A t \in Terminals :
    (\E i \in 1..Len(calls) :
        calls[i].op = "spawn" /\ calls[i].t = t /\ calls[i].state = "rejected")
      => /\ stage[t] = "failed"
         /\ ~Listening(t)
         /\ input[t] = <<>> /\ display[t] = <<>> /\ output[t] = <<>>
         /\ ~isInteractive[t] /\ jshReady[t] = "none"
         /\ Len(SpawnsFor(t)) = 1

\* the spawn of a session failed and its terminal emitted data afterwards
C16_Witness ==
  \E t \in Terminals : stage[t] = "failed" /\ Len(typed[t]) = 2

\* C17 (preview follows server-ready): the listener is registered at most
\* once, exactly once when the handle is fulfilled and the resumed functions
\* have run, before mount and before every spawn; the preview target is the
\* url of the latest server-ready event and empty before the first.
C17_PreviewFollows ==
  /\ Len(CallsOf("on")) <= 1
  /\ HandleThere => Len(CallsOf("on")) = 1
  /\ \A i \in 1..Len(calls) :
       calls[i].op \in {"mount", "spawn"} => \E j \in 1..(i - 1) : calls[j].op = "on"
  /\ previewSrc = IF served = <<>> THEN "" ELSE served[Len(served)]

\* two server-ready events with different urls
C17_Witness ==
  /\ Len(served) = 2
  /\ served[1] # served[2]
  /\ previewSrc = served[2]
  /\ \E i \in 1..Len(calls) : calls[i].op = "spawn"

\* the documents other than the selected one, and the fields of the
\* selected one other than field, are as they were
OnlyFieldChanged(field) ==
  /\ DOMAIN documents' = DOMAIN documents
  /\ \A path \in DOMAIN documents :
       path # selectedFile => documents'[path] = documents[path]
  /\ DOMAIN documents'[selectedFile] = (DOMAIN documents[selectedFile]) \cup {field}
  /\ \A f \in (DOMAIN documents[selectedFile]) \ {field} :
       documents'[selectedFile][f] = documents[selectedFile][f]
  /\ selectedFile' = selectedFile

\* C18 (frame of store updates): an edit changes the value of the selected
\* document and nothing else of the store; a scroll changes its scroll
\* position and nothing else, and starts no write-through; a selection
\* changes no document; no other step changes the store.
C18_StoreFrame ==
  [][/\ edits' # edits => (OnlyFieldChanged("value")
                              /\ documents'[selectedFile].value = edits'[Len(edits')].content)
     /\ scrolls' # scrolls => (OnlyFieldChanged("scroll")
                                /\ documents'[selectedFile].scroll \in Scrolls
                                /\ UNCHANGED <<waiters, microtasks, calls>>)
     /\ selects' # selects => documents' = documents
     /\ (edits' = edits /\ scrolls' = scrolls) => documents' = documents
     /\ selects' = selects => selectedFile' = selectedFile]_vars

\* a document that was edited and scrolled, another one is selected now
C18_Witness ==
  \E path \in PathSet :
    /\ path # selectedFile
    /\ "scroll" \in DOMAIN documents[path]
    /\ documents[path].value \in Contents

\* the last write issued for a file
LastWrite(path) ==
  LET mine == SelectSeq(WriteCalls, LAMBDA w : w.path = path)
  IN mine[Len(mine)]

\* C19 (write-through keeps the target and the order of the edits): the
\* writeFile calls are, in order, the first of the edits, each with the path
\* selected when the edit was made; when the handle is fulfilled and the
\* resumed functions have run they are all of them, so the last write for
\* a file carries what the store holds for it.
C19_WriteOrder ==
  /\ Len(WriteCalls) <= Len(edits)
  /\ WriteCalls = SubSeq(edits, 1, Len(WriteCalls))
  /\ HandleThere => WriteCalls = edits
  /\ HandleThere =>
       \A path \in PathSet :
         (\E i \in 1..Len(WriteCalls) : WriteCalls[i].path = path)
           => LastWrite(path).content = documents[path].value

\* two edits with a selection in between, written in that order while the
\* second file is the selected one
C19_Witness ==
  /\ Len(edits) = 2
  /\ edits[1].path # edits[2].path
  /\ selectedFile = edits[2].path
  /\ WriteCalls = edits
  /\ calls[Len(calls)].op = "writeFile"

\* C20 (sessions are independent): the gate of a session is open only if
\* its own process delivered the marker; each terminal has at most one spawn
\* and each session at most one bootstrap command; a chunk or a data event
\* of one terminal changes neither the flag nor the input nor the display
\* of the session of another.
C20_SessionsIndependent ==
  /\ [](\A t \in Terminals :
          /\ isInteractive[t] => MarkerDelivered(t)
          /\ Len(SpawnsFor(t)) <= 1
          /\ BootstrapWrites(t) <= 1)
  /\ [][\A t, u \in Terminals :
          (t # u /\ (output'[t] # output[t] \/ typed'[t] # typed[t]))
            => /\ isInteractive'[u] = isInteractive[u]
               /\ input'[u] = input[u]
               /\ display'[u] = display[u]]_vars

\* two sessions with their sinks set up: one saw the marker and got its
\* bootstrap command, the other did not and dropped a data event
C20_Witness ==
  \E t, u \in Terminals :
    /\ t # u
    /\ isInteractive[t] /\ input[t] = <<BootstrapCommand>>
    /\ stage[u] = "attached" /\ ~isInteractive[u]
    /\ typed[u] # <<>> /\ input[u] = <<>>

\* ---- toFileTree

\* the insertion orders of the same object
InsertionOrders(seq) ==
  LET n == Len(seq)
      bijections == {f \in [1..n -> 1..n] : \A i, j \in 1..n : f[i] = f[j] => i = j}
  IN {[i \in 1..n |-> seq[f[i]]] : f \in bijections}

IsPrefix(s, t) == Len(s) <= Len(t) /\ SubSeq(t, 1, Len(s)) = s

\* some key names, as a file, a location that another key needs as a directory
PrefixCollision(fs) ==
  \E i, j \in 1..Len(fs) :
    /\ Segments(fs[i][1]) # <<>>
    /\ Segments(fs[i][1]) # Segments(fs[j][1])
    /\ IsPrefix(Segments(fs[i][1]), Segments(fs[j][1]))

\* every key names a location and no two keys name the same one
DistinctLocations(fs) ==
  /\ \A i \in 1..Len(fs) : Segments(fs[i][1]) # <<>>
  /\ \A i, j \in 1..Len(fs) : i # j => Segments(fs[i][1]) # Segments(fs[j][1])

\* the nodes of a tree, each with its location: <<location, kind, contents>>
RECURSIVE NodesUnder(_, _)
NodesUnder(tree, at) ==
  UNION { LET here == Append(at, name) IN
          IF "file" \in DOMAIN tree[name]
          THEN {<<here, "file", tree[name].file.contents>>}
          ELSE {<<here, "directory", "">>} \cup NodesUnder(tree[name].directory, here)
        : name \in DOMAIN tree }

\* a file at the segments of every key, a directory at every proper prefix
ExpectedNodes(fs) ==
  {<<Segments(fs[i][1]), "file", fs[i][2].value>> : i \in 1..Len(fs)}
  \cup UNION { {<<SubSeq(Segments(fs[i][1]), 1, n), "directory", "">> :
                  n \in 1..(Len(Segments(fs[i][1])) - 1)} : i \in 1..Len(fs) }

\* C6 (order independence): toFileTree gives the same outcome for every
\* insertion order of the object it was given.
C6_OrderIndependent ==
  treePc = "done" => \A other \in InsertionOrders(files) : toFileTree(other) = built

C10_CollisionRejected ==
  (treePc = "done" /\ PrefixCollision(files)) => built.threw
====
